---- MODULE Spec2Model ----
(***************************************************************************)
(* Model of screener_v2.py: the open-interest / volume-delta screener.     *)
(*                                                                         *)
(* Python floats are modelled as exact rationals <<numerator, denominator>>*)
(* (denominator > 0, lowest terms); rounding of IEEE doubles is not        *)
(* modelled.  A failing Binance call is a BinanceAPIException with a code, *)
(* the only failure the handlers of the source name.                       *)
(***************************************************************************)
EXTENDS Integers, Sequences, FiniteSets, TLC

\* ------------------------------------------------------------------ bounds
MaxKlines == 2
MaxCycles == 2

\* ------------------------------------------------------- exact arithmetic
Abs(n) == IF n < 0 THEN -n ELSE n

RECURSIVE GCD(_, _)
GCD(a, b) == IF b = 0 THEN a ELSE GCD(b, a % b)

Norm(n, d) ==
    LET g == GCD(Abs(n), Abs(d))
        s == IF d < 0 THEN -1 ELSE 1
    IN  <<(s * n) \div g, (s * d) \div g>>

R(n) == <<n, 1>>
RAdd(x, y) == Norm(x[1] * y[2] + y[1] * x[2], x[2] * y[2])
RSub(x, y) == Norm(x[1] * y[2] - y[1] * x[2], x[2] * y[2])
RMul(x, y) == Norm(x[1] * y[1], x[2] * y[2])
RDiv(x, y) == Norm(x[1] * y[2], x[2] * y[1])
RLt(x, y) == x[1] * y[2] < y[1] * x[2]
RGt(x, y) == RLt(y, x)

\* ------------------------------------------------- calculate_cumulative_delta
\* A kline is the Binance row <<open time, open, high, low, close, volume>>;
\* Python's kline[k] is element k + 1 here.
PyIdx(row, k) == row[k + 1]

ZeroSplit == [cumulative_delta |-> R(0), total_buy_volume |-> R(0),
              total_sell_volume |-> R(0)]

\* mutant: the zero-range test is dropped only for the totals, a zero-range
\* candle is booked as sell volume
AddCandleCountsFlat(acc, kline) ==
    LET close_price == R(PyIdx(kline, 4))
        high_price == R(PyIdx(kline, 2))
        low_price == R(PyIdx(kline, 3))
        candle_volume == R(PyIdx(kline, 5))
        price_range == RSub(high_price, low_price)
    IN  IF price_range = R(0)
        THEN [acc EXCEPT !.total_sell_volume = RAdd(@, candle_volume),
                         !.cumulative_delta = RSub(@, candle_volume)]
        ELSE LET buy_volume == RMul(RDiv(candle_volume, price_range),
                                    RSub(close_price, low_price))
                 sell_volume == RSub(candle_volume, buy_volume)
             IN  [cumulative_delta |-> RAdd(acc.cumulative_delta,
                                            RSub(buy_volume, sell_volume)),
                  total_buy_volume |-> RAdd(acc.total_buy_volume, buy_volume),
                  total_sell_volume |-> RAdd(acc.total_sell_volume, sell_volume)]

\* one iteration of the for loop of calculate_cumulative_delta
AddCandle(acc, kline) ==
    LET close_price == R(PyIdx(kline, 4))
        high_price == R(PyIdx(kline, 2))
        low_price == R(PyIdx(kline, 3))
        candle_volume == R(PyIdx(kline, 5))
        price_range == RSub(high_price, low_price)
    IN  IF price_range = R(0)
        THEN acc
        ELSE LET buy_volume == RMul(RDiv(candle_volume, price_range),
                                    RSub(close_price, low_price))
                 sell_volume == RSub(candle_volume, buy_volume)
             IN  [cumulative_delta |-> RAdd(acc.cumulative_delta,
                                            RSub(buy_volume, sell_volume)),
                  total_buy_volume |-> RAdd(acc.total_buy_volume, buy_volume),
                  total_sell_volume |-> RAdd(acc.total_sell_volume, sell_volume)]

RECURSIVE DeltaLoop(_, _, _)
DeltaLoop(klines, i, acc) ==
    IF i > Len(klines) THEN acc
    ELSE DeltaLoop(klines, i + 1, AddCandle(acc, klines[i]))

calculate_cumulative_delta(klines) == DeltaLoop(klines, 1, ZeroSplit)

\* ------------------------------------------------------------ collaborators
None == <<>>

\* send_telegram_message: the response of requests.get is "200", another
\* status, or a transport error; both failures are logged inside the function
\* mutant: the transport error is not caught
send_telegram_message_unguarded(response) ==
    IF response = "200" THEN [raised |-> "none", logged_error |-> FALSE]
    ELSE IF response = "ConnectionError"
         THEN [raised |-> "ConnectionError", logged_error |-> FALSE]
         ELSE [raised |-> "none", logged_error |-> TRUE]

send_telegram_message(response) ==
    IF response = "200" THEN [raised |-> "none", logged_error |-> FALSE]
    ELSE [raised |-> "none", logged_error |-> TRUE]

\* fetch_current_price: the ticker price, or None after a BinanceAPIException
fetch_current_price(response) ==
    IF response.raised = "BinanceAPIException" THEN None
    ELSE <<response.price>>

\* mutant: only error -4108 is turned into (None, None, None)
fetch_futures_data_only_4108(response) ==
    IF response.raised = "BinanceAPIException"
    THEN IF response.code = -4108
         THEN [raised |-> "none", is_none |-> TRUE, data |-> response.data]
         ELSE [raised |-> "BinanceAPIException", is_none |-> TRUE,
               data |-> response.data]
    ELSE [raised |-> "none", is_none |-> FALSE, data |-> response.data]

\* fetch_futures_data: (open_interest, open_interest_hist, klines), or
\* (None, None, None) after a BinanceAPIException of any code
fetch_futures_data(response) ==
    IF response.raised = "BinanceAPIException"
    THEN IF response.code = -4108
         THEN [raised |-> "none", is_none |-> TRUE, data |-> response.data]
         ELSE [raised |-> "none", is_none |-> TRUE, data |-> response.data]
    ELSE [raised |-> "none", is_none |-> FALSE, data |-> response.data]

\* the truth value of "open_interest and open_interest_hist and
\* klines_by_interval": None, an empty list and an empty dict are false
FuturesTruthy(fetched) ==
    /\ ~fetched.is_none
    /\ fetched.data.open_interest_hist # <<>>
    /\ fetched.data.klines # <<>>

\* ------------------------------------------------------------ analyze_symbol
\* the if of lines 120-124, "and" evaluated left to right:
\* "true", "false" or "ZeroDivisionError"
\* mutant: the delta ratio is computed before the other conditions are tested
SignalGateRatioFirst(split, last_open_interest, prev_open_interest, interest_increase_percentage, cfg) ==
    IF split.total_buy_volume = R(0) THEN "ZeroDivisionError"
    ELSE IF ~RGt(RMul(RDiv(split.cumulative_delta, split.total_buy_volume),
                      R(100)), R(cfg.delta_percentage)) THEN "false"
    ELSE IF ~RGt(split.total_buy_volume, split.total_sell_volume) THEN "false"
    ELSE IF ~RGt(split.cumulative_delta, R(0)) THEN "false"
    ELSE IF ~RGt(last_open_interest, prev_open_interest) THEN "false"
    ELSE IF ~RGt(interest_increase_percentage, R(cfg.interest_percentage))
         THEN "false"
    ELSE "true"

\* mutant: the threshold on the growth of the open interest is not tested
SignalGateNoGrowthThreshold(split, last_open_interest, prev_open_interest, interest_increase_percentage, cfg) ==
    IF ~RGt(split.total_buy_volume, split.total_sell_volume) THEN "false"
    ELSE IF ~RGt(split.cumulative_delta, R(0)) THEN "false"
    ELSE IF ~RGt(last_open_interest, prev_open_interest) THEN "false"
    ELSE IF split.total_buy_volume = R(0) THEN "ZeroDivisionError"
    ELSE IF RGt(RMul(RDiv(split.cumulative_delta, split.total_buy_volume),
                     R(100)), R(cfg.delta_percentage)) THEN "true"
    ELSE "false"

SignalGate(split, last_open_interest, prev_open_interest, interest_increase_percentage, cfg) ==
    IF ~RGt(split.total_buy_volume, split.total_sell_volume) THEN "false"
    ELSE IF ~RGt(split.cumulative_delta, R(0)) THEN "false"
    ELSE IF ~RGt(last_open_interest, prev_open_interest) THEN "false"
    ELSE IF ~RGt(interest_increase_percentage, R(cfg.interest_percentage))
         THEN "false"
    ELSE IF split.total_buy_volume = R(0) THEN "ZeroDivisionError"
    ELSE IF RGt(RMul(RDiv(split.cumulative_delta, split.total_buy_volume),
                     R(100)), R(cfg.delta_percentage)) THEN "true"
    ELSE "false"

NoEval ==
    [evaluated |-> FALSE, symbol |-> "", interval |-> "", klines |-> <<>>,
     split |-> ZeroSplit, open_interest |-> 0, open_interest_hist |-> <<>>,
     price |-> None, price_fetch |-> "not_called", raised |-> "none", raised_at |-> "none",
     notified |-> FALSE, ratio_buy_to_sell |-> None,
     telegram |-> "not_called"]

\* the body of the interval loop, lines 105-140, for one interval
EvaluateInterval(symbol, interval, klines, open_interest, open_interest_hist, price_response, telegram_response, cfg) ==
    LET split == calculate_cumulative_delta(klines)
        last_open_interest == R(open_interest.openInterest)
        base == [NoEval EXCEPT !.evaluated = TRUE, !.symbol = symbol,
                               !.interval = interval, !.klines = klines,
                               !.split = split,
                               !.open_interest = open_interest.openInterest,
                               !.open_interest_hist = open_interest_hist]
    IN  IF Len(open_interest_hist) < 2
        THEN [base EXCEPT !.raised = "IndexError", !.raised_at = "line 108"]
        ELSE
        LET prev_open_interest ==
                R(open_interest_hist[Len(open_interest_hist) - 1].sumOpenInterest)
            current_price == fetch_current_price(price_response)
            priced == [base EXCEPT !.price = current_price,
                                   !.price_fetch =
                                       IF price_response.raised = "none"
                                       THEN "ok" ELSE "failed"]
        IN  IF prev_open_interest = R(0)
            THEN [priced EXCEPT !.raised = "ZeroDivisionError",
                                !.raised_at = "line 117"]
            ELSE
            LET interest_increase_percentage ==
                    RMul(RDiv(RSub(last_open_interest, prev_open_interest),
                              prev_open_interest), R(100))
                gate == SignalGate(split, last_open_interest, prev_open_interest,
                                   interest_increase_percentage, cfg)
            IN  IF gate = "ZeroDivisionError"
                THEN [priced EXCEPT !.raised = "ZeroDivisionError",
                                    !.raised_at = "line 124"]
                ELSE IF gate = "true"
                THEN LET sending == send_telegram_message(telegram_response)
                         ratio_buy_to_sell ==
                             IF split.total_sell_volume # R(0)
                             THEN <<RDiv(split.total_buy_volume,
                                         split.total_sell_volume)>>
                             ELSE <<"inf">>
                     IN  [priced EXCEPT !.notified = TRUE,
                                        !.ratio_buy_to_sell = ratio_buy_to_sell,
                                        !.telegram = telegram_response,
                                        !.raised = sending.raised,
                                        !.raised_at =
                                            IF sending.raised = "none" THEN "none"
                                            ELSE "line 140"]
                ELSE priced

\* ------------------------------------------------------------------- inputs
\* sequences over S of length at most n
SeqsUpTo(S, n) == UNION {[1..k -> S] : k \in 0..n}

Kline(high, low, close, volume) == <<0, low, high, low, close, volume>>

\* candles of the data model: volume >= 0, high >= low
Candles ==
    {Kline(3, l, c, 2) : l \in {1, 2}, c \in {1, 2, 3}}
        \cup {Kline(2, 2, 2, 2), Kline(3, 1, 3, 0), Kline(2, 1, 3, 2)}

BuyCandle == Kline(3, 1, 3, 2)
FlatCandle == Kline(2, 2, 2, 2)

\* what futures_exchange_info lists, from an empty exchange to three USDT
\* pairs and one pair quoted in BTC
BtcUsdt == [symbol |-> "BTCUSDT", quoteAsset |-> "USDT"]
EthUsdt == [symbol |-> "ETHUSDT", quoteAsset |-> "USDT"]
XrpUsdt == [symbol |-> "XRPUSDT", quoteAsset |-> "USDT"]
EthBtc == [symbol |-> "ETHBTC", quoteAsset |-> "BTC"]
ExchangeInfos ==
    {<<>>, <<EthBtc>>, <<EthUsdt, EthBtc, BtcUsdt>>,
     <<BtcUsdt, EthUsdt, EthBtc, XrpUsdt>>}

OpenInterestFeed == {[openInterest |-> n] : n \in {5, 11, 13}}
HistRows == {[sumOpenInterest |-> n] : n \in {0, 10}}
HistFeed ==
    {<<>>, <<[sumOpenInterest |-> 10]>>} \cup
    {<<prev, [sumOpenInterest |-> 13]>> : prev \in HistRows}

\* the data of one symbol as the scan loop is fed it
ScanKlines == {<<BuyCandle>>, <<FlatCandle>>}
ScanFutures(intervals) ==
    [open_interest : {[openInterest |-> 13]},
     open_interest_hist : {<<>>, <<[sumOpenInterest |-> 0],
                                   [sumOpenInterest |-> 13]>>,
                           <<[sumOpenInterest |-> 10],
                             [sumOpenInterest |-> 13]>>},
     klines : [1..Len(intervals) -> ScanKlines]]

\* the data of one symbol as the evaluation of one interval is fed it
EvalFutures(intervals) ==
    [open_interest : OpenInterestFeed,
     open_interest_hist : HistFeed \ {<<>>},
     klines : [1..Len(intervals) -> SeqsUpTo(Candles, MaxKlines)]]

NoFutures ==
    [open_interest |-> [openInterest |-> 0], open_interest_hist |-> <<>>,
     klines |-> <<>>]

ErrorCodes == {-4108, -1121}
PriceResponses ==
    {[raised |-> "none", price |-> 7],
     [raised |-> "BinanceAPIException", price |-> 0]}
TelegramResponses == {"200", "500", "ConnectionError"}

ScanConfigs ==
    {[analysis_intervals |-> <<"5m", "1h">>, delta_percentage |-> 5,
      interest_percentage |-> 10]}
EvalConfigs ==
    [analysis_intervals : {<<"5m">>}, delta_percentage : {5, 70},
     interest_percentage : {-60, 10}]

\* -------------------------------------------------------------------- state
VARIABLES
    config,     \* config.json, loaded once at import
    pc,         \* where main is: "analyze_market" (line 146), "for_symbol"
                \* (line 149), "for_interval" (line 104), "sleep" (line 159),
                \* "crashed" (an exception left main)
    symbols,    \* analyze_market's list of USDT symbols
    idx,        \* symbols already passed by the for loop of line 149
    futures,    \* analyze_symbol's fetched data of the current symbol
    ivl,        \* intervals already passed by the for loop of line 104
    cycle,      \* calls of analyze_market so far
    sleeps,     \* calls of time.sleep so far
    listing,    \* this cycle's futures_exchange_info: "none", "ok", "failed"
    calls,      \* this cycle's calls of analyze_symbol, in order
    sent,       \* this cycle's calls of send_telegram_message, each with
                \* whether the message was delivered
    fetchErrs,  \* this cycle's Binance calls that raised
    lastEval    \* the interval evaluation just made

vars == <<config, pc, symbols, idx, futures, ivl, cycle, sleeps, listing,
          calls, sent, fetchErrs, lastEval>>

\* the "except BinanceAPIException" of analyze_market, the only handler
\* between analyze_symbol and the top of main
\* mutant: analyze_market without its try
analyze_market_no_except(raised) == "crashed"

analyze_market_except(raised) ==
    IF raised = "BinanceAPIException" THEN "sleep" ELSE "crashed"

\* the list comprehension of line 147
RECURSIVE UsdtSymbols(_)
UsdtSymbols(items) ==
    IF items = <<>> THEN <<>>
    ELSE IF Head(items).quoteAsset = "USDT"
         THEN <<Head(items).symbol>> \o UsdtSymbols(Tail(items))
         ELSE UsdtSymbols(Tail(items))

Init ==
    /\ config \in ScanConfigs
    /\ pc = "analyze_market"
    /\ symbols = <<>>
    /\ idx = 0
    /\ futures = NoFutures
    /\ ivl = 0
    /\ cycle = 0
    /\ sleeps = 0
    /\ listing = "none"
    /\ calls = <<>>
    /\ sent = {}
    /\ fetchErrs = {}
    /\ lastEval = NoEval

\* analyze_market, lines 146-147: the listing is fetched
ExchangeInfoFetched ==
    /\ pc = "analyze_market"
    /\ cycle < MaxCycles
    /\ \E info \in ExchangeInfos :
          symbols' = UsdtSymbols(info)
    /\ pc' = "for_symbol"
    /\ idx' = 0
    /\ cycle' = cycle + 1
    /\ listing' = "ok"
    /\ calls' = <<>>
    /\ sent' = {}
    /\ fetchErrs' = {}
    /\ lastEval' = NoEval
    /\ UNCHANGED <<config, futures, ivl, sleeps>>

\* analyze_market, lines 146 and 152-153: the listing raises
ExchangeInfoFails ==
    /\ pc = "analyze_market"
    /\ cycle < MaxCycles
    /\ pc' = analyze_market_except("BinanceAPIException")
    /\ symbols' = <<>>
    /\ idx' = 0
    /\ cycle' = cycle + 1
    /\ listing' = "failed"
    /\ calls' = <<>>
    /\ sent' = {}
    /\ fetchErrs' = {}
    /\ lastEval' = NoEval
    /\ UNCHANGED <<config, futures, ivl, sleeps>>

\* analyze_symbol, lines 100-103, with the data fetched
AnalyzeSymbolFetched ==
    /\ pc = "for_symbol"
    /\ idx < Len(symbols)
    /\ \E data \in ScanFutures(config.analysis_intervals) :
          LET fetched == fetch_futures_data([raised |-> "none", code |-> 0,
                                             data |-> data])
          IN  IF FuturesTruthy(fetched)
              THEN /\ pc' = "for_interval"
                   /\ futures' = fetched.data
                   /\ idx' = idx
              ELSE /\ pc' = "for_symbol"
                   /\ futures' = NoFutures
                   /\ idx' = idx + 1
    /\ ivl' = 0
    /\ calls' = Append(calls, symbols[idx + 1])
    /\ lastEval' = NoEval
    /\ UNCHANGED <<config, symbols, cycle, sleeps, listing, sent, fetchErrs>>

\* the calls fetch_futures_data makes, any of which may raise
FetchCalls(intervals) ==
    {"futures_open_interest", "futures_open_interest_hist"}
        \cup {"futures_klines " \o intervals[i] : i \in 1..Len(intervals)}

\* analyze_symbol, lines 100-103, with a fetch that raises
AnalyzeSymbolFetchFails ==
    /\ pc = "for_symbol"
    /\ idx < Len(symbols)
    /\ \E call \in FetchCalls(config.analysis_intervals), code \in ErrorCodes :
          LET fetched == fetch_futures_data([raised |-> "BinanceAPIException",
                                             code |-> code, data |-> NoFutures])
          IN  /\ fetchErrs' = fetchErrs \cup
                      {[symbol |-> symbols[idx + 1], call |-> call, code |-> code]}
              /\ IF fetched.raised # "none"
                 THEN /\ pc' = analyze_market_except(fetched.raised)
                      /\ idx' = idx
                 ELSE IF FuturesTruthy(fetched)
                 THEN /\ pc' = "for_interval"
                      /\ idx' = idx
                 ELSE /\ pc' = "for_symbol"
                      /\ idx' = idx + 1
    /\ futures' = NoFutures
    /\ ivl' = 0
    /\ calls' = Append(calls, symbols[idx + 1])
    /\ lastEval' = NoEval
    /\ UNCHANGED <<config, symbols, cycle, sleeps, listing, sent>>

\* analyze_symbol, lines 104-140: one interval
AnalyzeInterval ==
    /\ pc = "for_interval"
    /\ ivl < Len(config.analysis_intervals)
    /\ \E price_response \in PriceResponses,
          telegram_response \in TelegramResponses :
          LET interval == config.analysis_intervals[ivl + 1]
              eval == EvaluateInterval(symbols[idx + 1], interval,
                                       futures.klines[ivl + 1],
                                       futures.open_interest,
                                       futures.open_interest_hist,
                                       price_response, telegram_response,
                                       config)
          IN  /\ lastEval' = eval
              /\ sent' = IF eval.notified
                         THEN sent \cup {[symbol |-> eval.symbol,
                                          interval |-> eval.interval,
                                          delivered |->
                                              eval.telegram = "200"]}
                         ELSE sent
              /\ fetchErrs' = IF eval.price_fetch = "failed"
                              THEN fetchErrs \cup
                                   {[symbol |-> eval.symbol,
                                     call |-> "get_symbol_ticker",
                                     code |-> -1121]}
                              ELSE fetchErrs
              /\ IF eval.raised # "none"
                 THEN /\ pc' = analyze_market_except(eval.raised)
                      /\ ivl' = ivl
                 ELSE /\ pc' = "for_interval"
                      /\ ivl' = ivl + 1
    /\ UNCHANGED <<config, symbols, idx, futures, cycle, sleeps, listing,
                   calls>>

\* analyze_symbol returns after its last interval
AnalyzeSymbolReturns ==
    /\ pc = "for_interval"
    /\ ivl = Len(config.analysis_intervals)
    /\ pc' = "for_symbol"
    /\ idx' = idx + 1
    /\ futures' = NoFutures
    /\ ivl' = 0
    /\ lastEval' = NoEval
    /\ UNCHANGED <<config, symbols, cycle, sleeps, listing, calls, sent,
                   fetchErrs>>

\* the for loop of line 149 is exhausted: analyze_market returns
MarketScanDone ==
    /\ pc = "for_symbol"
    /\ idx = Len(symbols)
    /\ pc' = "sleep"
    /\ lastEval' = NoEval
    /\ UNCHANGED <<config, symbols, idx, futures, ivl, cycle, sleeps, listing,
                   calls, sent, fetchErrs>>

\* main, lines 159-160: the wait between two cycles
Sleep ==
    /\ pc = "sleep"
    /\ pc' = "analyze_market"
    /\ sleeps' = sleeps + 1
    /\ UNCHANGED <<config, symbols, idx, futures, ivl, cycle, listing, calls,
                   sent, fetchErrs, lastEval>>

Next ==
    \/ ExchangeInfoFetched
    \/ ExchangeInfoFails
    \/ AnalyzeSymbolFetched
    \/ AnalyzeSymbolFetchFails
    \/ AnalyzeInterval
    \/ AnalyzeSymbolReturns
    \/ MarketScanDone
    \/ Sleep

Spec == Init /\ [][Next]_vars

\* One symbol whose data has just been fetched, any data of the data model:
\* analyze_symbol from line 104 on.
EvalInit ==
    /\ config \in EvalConfigs
    /\ pc = "for_interval"
    /\ symbols = <<"BTCUSDT">>
    /\ idx = 0
    /\ futures \in EvalFutures(config.analysis_intervals)
    /\ ivl = 0
    /\ cycle = 1
    /\ sleeps = 0
    /\ listing = "ok"
    /\ calls = <<"BTCUSDT">>
    /\ sent = {}
    /\ fetchErrs = {}
    /\ lastEval = NoEval

EvalNext ==
    \/ AnalyzeInterval
    \/ AnalyzeSymbolReturns

SpecEval == EvalInit /\ [][EvalNext]_vars

\* ------------------------------------------------------------------- claims
Range(s) == {s[i] : i \in 1..Len(s)}
IsPrefix(s, t) == Len(s) <= Len(t) /\ \A i \in 1..Len(s) : s[i] = t[i]
Scanning == pc \in {"for_symbol", "for_interval"}
CycleOver == pc \in {"sleep", "crashed"}
SentFor(symbol) == {n \in sent : n.symbol = symbol}

HasPrev(e) == Len(e.open_interest_hist) >= 2
PrevOf(e) ==
    e.open_interest_hist[Len(e.open_interest_hist) - 1].sumOpenInterest

\* the five conditions of the signal, each a comparison of reals; a condition
\* whose quotient is undefined does not hold
FiveConditions(e) ==
    /\ RGt(e.split.total_buy_volume, e.split.total_sell_volume)
    /\ RGt(e.split.cumulative_delta, R(0))
    /\ HasPrev(e)
    /\ e.open_interest > PrevOf(e)
    /\ PrevOf(e) # 0
    /\ RGt(RMul(RDiv(R(e.open_interest - PrevOf(e)), R(PrevOf(e))), R(100)),
           R(config.interest_percentage))
    /\ e.split.total_buy_volume # R(0)
    /\ RGt(RMul(RDiv(e.split.cumulative_delta, e.split.total_buy_volume),
                R(100)), R(config.delta_percentage))

\* C1: an evaluation of one symbol and interval calls send_telegram_message
\* if and only if all five conditions hold together.
C1_NotifiedIffAllFive ==
    lastEval.evaluated => (lastEval.notified <=> FiveConditions(lastEval))

C1_Witness ==
    /\ lastEval.evaluated
    /\ lastEval.notified
    /\ FiveConditions(lastEval)

RECURSIVE SumVolume(_)
SumVolume(klines) ==
    IF klines = <<>> THEN 0
    ELSE PyIdx(Head(klines), 5) + SumVolume(Tail(klines))

HasRange(kline) == PyIdx(kline, 2) > PyIdx(kline, 3)
Ranged(klines) == SelectSeq(klines, HasRange)

\* C2: total buy volume plus total sell volume is the volume of the candles
\* with high > low; candles with high = low change none of the three results;
\* a sequence without any candle of high > low gives (0, 0, 0).
C2_TotalsAreRangedVolume ==
    lastEval.evaluated =>
        /\ RAdd(lastEval.split.total_buy_volume,
                lastEval.split.total_sell_volume)
               = R(SumVolume(Ranged(lastEval.klines)))
        /\ lastEval.split = calculate_cumulative_delta(Ranged(lastEval.klines))
        /\ Ranged(lastEval.klines) = <<>> => lastEval.split = ZeroSplit

C2_Witness ==
    /\ lastEval.evaluated
    /\ \E i, j \in 1..Len(lastEval.klines) :
          /\ ~HasRange(lastEval.klines[i])
          /\ PyIdx(lastEval.klines[i], 5) > 0
          /\ HasRange(lastEval.klines[j])
          /\ PyIdx(lastEval.klines[j], 5) > 0

\* C3: when the fetch of a symbol fails with error -4108, that symbol gets no
\* notification and, once the cycle is over, every other symbol of the list
\* has been analysed.
C3_UnsupportedSymbolOnlySkipsItself ==
    \A e \in fetchErrs :
        e.code = -4108 =>
            /\ SentFor(e.symbol) = {}
            /\ CycleOver => \A k \in 1..Len(symbols) : symbols[k] \in Range(calls)

\* C4: with the listing fetched, a cycle calls analyze_symbol once per symbol
\* in list order, and a cycle's symbols are analysed only after the sleep that
\* follows the cycle before.
C4_EachSymbolOncePerCycle ==
    /\ IsPrefix(calls, symbols)
    /\ (listing = "ok" /\ CycleOver) => calls = symbols
    /\ Scanning => sleeps = cycle - 1

\* C5: an evaluation whose previous open interest is 0 sends nothing, raises
\* nothing out of analyze_symbol and leaves the scan running.
C5_ZeroPreviousInterestSkipped ==
    (lastEval.evaluated /\ HasPrev(lastEval) /\ PrevOf(lastEval) = 0) =>
        /\ ~lastEval.notified
        /\ lastEval.raised = "none"
        /\ pc # "crashed"

C7_NotificationFailureSwallowed ==
    /\ [][lastEval'.notified /\ lastEval' # lastEval =>
             /\ lastEval'.raised = "none"
             /\ pc' = "for_interval"
             /\ ivl' = ivl + 1
             /\ UNCHANGED <<symbols, idx, futures, calls, listing, cycle,
                            sleeps>>]_vars
    /\ [](pc = "crashed" => lastEval.raised_at # "line 140")

C7_Witness ==
    /\ pc = "sleep"
    /\ Len(calls) >= 2
    /\ \E n \in sent :
          /\ n.symbol = calls[1]
          /\ n.interval = "5m"
          /\ ~n.delivered
    /\ \E n \in sent : n.symbol = calls[1] /\ n.interval = "1h"
    /\ \E n \in sent : n.symbol = calls[2]

\* C8: a cycle whose listing fails analyses no symbol and sends nothing, goes
\* to the sleep and from there to a new call of analyze_market; symbols are
\* scanned only from a listing fetched in the same cycle.
C8_ListingFailureSkipsCycle ==
    /\ listing = "failed" =>
          /\ calls = <<>>
          /\ sent = {}
          /\ pc \in {"sleep", "analyze_market"}
    /\ pc = "analyze_market" => sleeps = cycle
    /\ Scanning => listing = "ok"

C8_Witness ==
    /\ listing = "failed"
    /\ pc = "analyze_market"
    /\ sleeps = cycle
    /\ cycle < MaxCycles

\* C9: main never stops by itself.
C9_NeverHalts == pc # "crashed"

\* C10: an evaluation whose total buy volume is 0 sends nothing and never
\* divides by it.
C10_ZeroBuyVolumeNeverDivides ==
    (lastEval.evaluated /\ lastEval.split.total_buy_volume = R(0)) =>
        /\ ~lastEval.notified
        /\ lastEval.raised_at # "line 124"
        /\ (HasPrev(lastEval) /\ PrevOf(lastEval) # 0) => lastEval.raised = "none"

C10_Witness ==
    /\ lastEval.evaluated
    /\ lastEval.split.total_buy_volume = R(0)
    /\ \E i \in 1..Len(lastEval.klines) :
          /\ HasRange(lastEval.klines[i])
          /\ PyIdx(lastEval.klines[i], 5) > 0
    /\ HasPrev(lastEval)
    /\ lastEval.open_interest > PrevOf(lastEval)
    /\ PrevOf(lastEval) # 0
    /\ lastEval.raised = "none"

====
